---- MODULE Spec2Model ----
(***************************************************************************)
(* Model of the interestingness checker of diopter (src/checker.py):       *)
(* Checker.is_interesting and its four oracles, the sanitize pipeline, and *)
(* the Empty-Body rewriting of the candidate source.                       *)
(*                                                                         *)
(* Text (str) is a sequence of one-character strings, so that strip,       *)
(* split, substring search and the regular expression of the Empty-Body    *)
(* oracle are computed, not assumed.                                       *)
(***************************************************************************)
EXTENDS Integers, Sequences, FiniteSets, TLC

\* Largest number of good settings of a case.
MaxGood == 2
\* Largest number of source lines joined into a candidate program.
MaxLines == 2

VARIABLES
    case,     \* the ReduceCase under judgment: code, marker, bad_setting, good_settings
    alive,    \* Builder: setting -> alive-marker set of case.code
    asm,      \* Builder: setting -> assembly text of the annotated source (once annotated)
    pc,       \* position of the single, synchronous control flow
    calls,    \* oracles and sanitize stages invoked so far, in order
    ret,      \* return values: function name -> BOOLEAN, for the functions that returned
    raised,   \* the exception that left is_interesting, or "none"
    procs,    \* external processes run so far: tool, outcome, output text
    files,    \* temporary files that exist on disk
    source,   \* text written to the oracle's temporary .c file
    heap,     \* the objects of the process: flag lists, settings, lists of settings, cases
    main,     \* the checker process: arguments, cases_to_test, position, exit code
    client    \* a caller of override_bad / override_good: what it got and what it changed

\* The variables outside one is_interesting call.
outer == <<heap, main, client>>

vars == <<case, alive, asm, pc, calls, ret, raised, procs, files, source, heap, main, client>>

(***************************************************************************)
(* Text helpers (Python str semantics).                                    *)
(***************************************************************************)

\* A character is a one-element string. A character a string literal
\* cannot hold (any character outside ASCII) is written by its code point,
\* as in "U+2018"; the control characters below are held as they are.
VT == ""  \* U+000B, line tabulation
FS == ""  \* U+001C, file separator
GS == ""  \* U+001D, group separator
RS == ""  \* U+001E, record separator
US == ""  \* U+001F, unit separator

\* The whitespace characters outside ASCII (str.isspace).
UnicodeWhitespace ==
    {
      "U+0085", "U+00A0", "U+1680", "U+2000", "U+2001", "U+2002",
      "U+2003", "U+2004", "U+2005", "U+2006", "U+2007", "U+2008",
      "U+2009", "U+200A", "U+2028", "U+2029", "U+202F", "U+205F",
      "U+3000" }

\* str.strip() removes these from both ends: every character for which
\* str.isspace holds.
Whitespace == {" ", "\t", "\n", "\r", "\f", VT, FS, GS, RS, US} \cup UnicodeWhitespace

RECURSIVE LStrip(_)
LStrip(s) ==
    IF s # <<>> /\ Head(s) \in Whitespace THEN LStrip(Tail(s)) ELSE s

RECURSIVE RStrip(_)
RStrip(s) ==
    IF s # <<>> /\ s[Len(s)] \in Whitespace
    THEN RStrip(SubSeq(s, 1, Len(s) - 1))
    ELSE s

Strip(s) == LStrip(RStrip(s))

\* t occurs in s at position i.
OccursAt(s, t, i) ==
    /\ i >= 1
    /\ i + Len(t) - 1 <= Len(s)
    /\ SubSeq(s, i, i + Len(t) - 1) = t

\* Python: t in s
Contains(s, t) == \E i \in 1..(Len(s) + 1) : OccursAt(s, t, i)

\* Python: s.startswith(t)
StartsWith(s, t) == OccursAt(s, t, 1)

Newline == "\n"

\* Python: s.split("\n")
RECURSIVE SplitLines(_)
SplitLines(s) ==
    IF \A i \in 1..Len(s) : s[i] # Newline
    THEN <<s>>
    ELSE LET i == CHOOSE k \in 1..Len(s) :
                      /\ s[k] = Newline
                      /\ \A j \in 1..(k - 1) : s[j] # Newline
         IN  <<SubSeq(s, 1, i - 1)>> \o SplitLines(SubSeq(s, i + 1, Len(s)))

\* "\n".join(ls)
RECURSIVE JoinLines(_)
JoinLines(ls) ==
    IF ls = <<>> THEN <<>>
    ELSE IF Len(ls) = 1 THEN ls[1]
    ELSE ls[1] \o <<Newline>> \o JoinLines(Tail(ls))

Digits == {"0", "1", "2", "3", "4", "5", "6", "7", "8", "9"}

\* Python: s.rstrip(chars)
RECURSIVE RStripChars(_, _)
RStripChars(s, chars) ==
    IF s # <<>> /\ s[Len(s)] \in chars
    THEN RStripChars(SubSeq(s, 1, Len(s) - 1), chars)
    ELSE s

SetMax(S) == CHOOSE x \in S : \A y \in S : y <= x

(***************************************************************************)
(* The data model.                                                         *)
(***************************************************************************)

M1 == <<"M", "1", "_">>
M2 == <<"M", "2", "_">>

\* Marker identifiers <prefix><numeric id>_ the candidate programs use.
Markers == {M1, M2}

\* utils.get_marker_prefix: the marker without its trailing numeric id.
get_marker_prefix(marker) == RStripChars(RStripChars(marker, {"_"}), Digits)

\* A case's settings are pairwise distinct configurations, named by their
\* place in the case: the bad setting and the good settings 1..n.
BadSetting == <<"bad">>
GoodSettings(n) == [i \in 1..n |-> <<"good", i>>]
SettingsOf(c) == {c.bad_setting} \cup {c.good_settings[i] : i \in 1..Len(c.good_settings)}

\* utils.ReduceCase
ReduceCase(code, marker, bad, goods) ==
    [code |-> code, marker |-> marker, bad_setting |-> bad, good_settings |-> goods]

(***************************************************************************)
(* Marker Oracle.                                                          *)
(***************************************************************************)

\* builder.find_alive_markers(case.code, setting, marker_prefix, builder)
find_alive_markers(setting) == alive[setting]

\* The loop over case.good_settings, stopping after the first good setting whatever it says.
MarkerGoodLoopFirstOnly(marker, goods, uninteresting) ==
    IF goods = <<>> THEN uninteresting
    ELSE IF marker \in find_alive_markers(Head(goods)) THEN TRUE
    ELSE uninteresting

\* The loop over case.good_settings, with its break at the first good
\* setting under which the marker is alive.
RECURSIVE MarkerGoodLoop(_, _, _)
MarkerGoodLoop(marker, goods, uninteresting) ==
    IF goods = <<>> THEN uninteresting
    ELSE IF marker \in find_alive_markers(Head(goods)) THEN TRUE
    ELSE MarkerGoodLoop(marker, Tail(goods), uninteresting)

\* Checker.is_interesting_wrt_marker: its return value.
is_interesting_wrt_marker(c) ==
    LET found_in_bad == find_alive_markers(c.bad_setting)
        uninteresting == c.marker \notin found_in_bad
    IN  ~ MarkerGoodLoop(c.marker, c.good_settings, uninteresting)

(***************************************************************************)
(* Call-Chain Oracle.                                                      *)
(***************************************************************************)

\* "call chain exists between main -> "
CccPhrase ==
    <<"c","a","l","l"," ","c","h","a","i","n"," ","e","x","i","s","t","s"," ",
      "b","e","t","w","e","e","n"," ","m","a","i","n"," ","-",">"," ">>

\* utils.run_cmd: the decoded standard output, stripped.
run_cmd(stdout) == Strip(stdout)

\* A comparison that accepts any answer beginning with the phrase.
CccAnswerMatchesPrefix(marker, result) ==
    StartsWith(Strip(result), Strip(CccPhrase \o marker))

\* f"call chain exists between main -> {case.marker}".strip() == result.strip()
CccAnswerMatches(marker, result) ==
    Strip(CccPhrase \o marker) = Strip(result)

\* A handler that catches only the failed run.
CccCaughtFailureOnly == {"nonzero"}

\* The outcomes of the call-graph tool the except clauses catch:
\* CalledProcessError (non-zero exit) and TimeoutExpired.
CccCaught == {"nonzero", "timeout"}

(***************************************************************************)
(* Static-Global Oracle.                                                   *)
(***************************************************************************)

\* builder.get_asm_str(static_code, setting, builder)
get_asm_str(setting) == asm[setting]

RECURSIVE StaticGoodLoop(_, _, _)
StaticGoodLoop(marker, goods, uninteresting) ==
    IF goods = <<>> THEN uninteresting
    ELSE IF Contains(get_asm_str(Head(goods)), marker) THEN TRUE
    ELSE StaticGoodLoop(marker, Tail(goods), uninteresting)

\* A comparison of the whole assembly text with the marker instead of a search.
StaticVerdictWholeText(c) ==
    /\ get_asm_str(c.bad_setting) = c.marker
    /\ \A i \in 1..Len(c.good_settings) : get_asm_str(c.good_settings[i]) # c.marker

\* The verdict of is_interesting_with_static_globals once the annotator ran.
StaticVerdict(c) ==
    LET asm_bad == get_asm_str(c.bad_setting)
        uninteresting == ~ Contains(asm_bad, c.marker)
    IN  ~ StaticGoodLoop(c.marker, c.good_settings, uninteresting)

\* annotate_program_with_static: what a non-zero exit of the annotator
\* becomes. The CalledProcessError is caught and a plain Exception raised.
AnnotatorFailure == "Exception"

(***************************************************************************)
(* Empty-Body rewriting.                                                   *)
(***************************************************************************)

VoidSp == <<"v","o","i","d"," ">>
DeclTail == <<"(","v","o","i","d",")",";">>
DefTail == <<"(","v","o","i","d",")","{","}">>

\* re.compile(f"void {marker_prefix}(.*)\(void\);").match(line): the places
\* where the closing "(void);" may begin. The match is anchored at the start
\* of the line only, and "." matches anything but a newline.
MatchEnds(line, prefix) ==
    LET head == VoidSp \o prefix
    IN  IF ~ StartsWith(line, head) THEN {}
        ELSE { j \in (Len(head) + 1)..(Len(line) - Len(DeclTail) + 1) :
                 /\ OccursAt(line, DeclTail, j)
                 /\ \A k \in (Len(head) + 1)..(j - 1) : line[k] # Newline }

\* m is not None
Matches(line, prefix) == MatchEnds(line, prefix) # {}

\* m.group(1): ".*" is greedy, it ends at the last "(void);" of the line.
Group1(line, prefix) ==
    SubSeq(line, Len(VoidSp \o prefix) + 1, SetMax(MatchEnds(line, prefix)) - 1)

\* One turn of the loop: what is appended to empty_body_code for a line.
RewrittenLine(line, prefix) ==
    IF Matches(line, prefix)
    THEN <<Newline>> \o VoidSp \o prefix \o Group1(line, prefix) \o DefTail
    ELSE <<Newline>> \o line

RECURSIVE RewriteLines(_, _)
RewriteLines(lines, prefix) ==
    IF lines = <<>> THEN <<>>
    ELSE RewrittenLine(Head(lines), prefix) \o RewriteLines(Tail(lines), prefix)

\* empty_body_code, as is_interesting_with_empty_marker_bodies builds it.
EmptyBodyCode(code, marker) ==
    RewriteLines(SplitLines(code), get_marker_prefix(marker))

(***************************************************************************)
(* Sanitize pipeline.                                                      *)
(***************************************************************************)

\* check_compiler_warnings: the catalogue of warning signatures (the two
\* typographic quotes of the entry about main are written by their code
\* points, U+2018 and U+2019).
warnings == {
    <<"c","o","n","v","e","r","s","i","o","n","s"," ","t","h","a","n"," ","d","a","t","a"," ","a","r","g","u","m","e","n","t","s">>,
    <<"i","n","c","o","m","p","a","t","i","b","l","e"," ","r","e","d","e","c","l","a","r","a","t","i","o","n">>,
    <<"o","r","d","e","r","e","d"," ","c","o","m","p","a","r","i","s","o","n"," ","b","e","t","w","e","e","n"," ","p","o","i","n","t","e","r">>,
    <<"e","l","i","d","i","n","g"," ","m","i","d","d","l","e"," ","t","e","r","m">>,
    <<"e","n","d"," ","o","f"," ","n","o","n","-","v","o","i","d"," ","f","u","n","c","t","i","o","n">>,
    <<"i","n","v","a","l","i","d"," ","i","n"," ","C","9","9">>,
    <<"s","p","e","c","i","f","i","e","s"," ","t","y","p","e">>,
    <<"s","h","o","u","l","d"," ","r","e","t","u","r","n"," ","a"," ","v","a","l","u","e">>,
    <<"u","n","i","n","i","t","i","a","l","i","z","e","d">>,
    <<"i","n","c","o","m","p","a","t","i","b","l","e"," ","p","o","i","n","t","e","r"," ","t","o">>,
    <<"i","n","c","o","m","p","a","t","i","b","l","e"," ","i","n","t","e","g","e","r"," ","t","o">>,
    <<"c","o","m","p","a","r","i","s","o","n"," ","o","f"," ","d","i","s","t","i","n","c","t"," ","p","o","i","n","t","e","r"," ","t","y","p","e","s">>,
    <<"t","y","p","e"," ","s","p","e","c","i","f","i","e","r"," ","m","i","s","s","i","n","g">>,
    <<"u","n","i","n","i","t","i","a","l","i","z","e","d">>,
    <<"W","i","m","p","l","i","c","i","t","-","i","n","t">>,
    <<"d","i","v","i","s","i","o","n"," ","b","y"," ","z","e","r","o">>,
    <<"w","i","t","h","o","u","t"," ","a"," ","c","a","s","t">>,
    <<"c","o","n","t","r","o","l"," ","r","e","a","c","h","e","s"," ","e","n","d">>,
    <<"r","e","t","u","r","n"," ","t","y","p","e"," ","d","e","f","a","u","l","t","s">>,
    <<"c","a","s","t"," ","f","r","o","m"," ","p","o","i","n","t","e","r"," ","t","o"," ","i","n","t","e","g","e","r">>,
    <<"u","s","e","l","e","s","s"," ","t","y","p","e"," ","n","a","m","e"," ","i","n"," ","e","m","p","t","y"," ","d","e","c","l","a","r","a","t","i","o","n">>,
    <<"n","o"," ","s","e","m","i","c","o","l","o","n"," ","a","t"," ","e","n","d">>,
    <<"t","y","p","e"," ","d","e","f","a","u","l","t","s"," ","t","o">>,
    <<"t","o","o"," ","f","e","w"," ","a","r","g","u","m","e","n","t","s"," ","f","o","r"," ","f","o","r","m","a","t">>,
    <<"i","n","c","o","m","p","a","t","i","b","l","e"," ","p","o","i","n","t","e","r">>,
    <<"o","r","d","e","r","e","d"," ","c","o","m","p","a","r","i","s","o","n"," ","o","f"," ","p","o","i","n","t","e","r"," ","w","i","t","h"," ","i","n","t","e","g","e","r">>,
    <<"d","e","c","l","a","r","a","t","i","o","n"," ","d","o","e","s"," ","n","o","t"," ","d","e","c","l","a","r","e"," ","a","n","y","t","h","i","n","g">>,
    <<"e","x","p","e","c","t","s"," ","t","y","p","e">>,
    <<"c","o","m","p","a","r","i","s","o","n"," ","o","f"," ","d","i","s","t","i","n","c","t"," ","p","o","i","n","t","e","r"," ","t","y","p","e","s">>,
    <<"p","o","i","n","t","e","r"," ","f","r","o","m"," ","i","n","t","e","g","e","r">>,
    <<"i","n","c","o","m","p","a","t","i","b","l","e"," ","i","m","p","l","i","c","i","t">>,
    <<"e","x","c","e","s","s"," ","e","l","e","m","e","n","t","s"," ","i","n"," ","s","t","r","u","c","t"," ","i","n","i","t","i","a","l","i","z","e","r">>,
    <<"c","o","m","p","a","r","i","s","o","n"," ","b","e","t","w","e","e","n"," ","p","o","i","n","t","e","r"," ","a","n","d"," ","i","n","t","e","g","e","r">>,
    <<"r","e","t","u","r","n"," ","t","y","p","e"," ","o","f"," ","U+2018","m","a","i","n","U+2019"," ","i","s"," ","n","o","t"," ","U+2018","i","n","t","U+2019">>,
    <<"p","a","s","t"," ","t","h","e"," ","e","n","d"," ","o","f"," ","t","h","e"," ","a","r","r","a","y">>,
    <<"n","o"," ","r","e","t","u","r","n"," ","s","t","a","t","e","m","e","n","t"," ","i","n"," ","f","u","n","c","t","i","o","n"," ","r","e","t","u","r","n","i","n","g"," ","n","o","n","-","v","o","i","d">> }

\* ws = [w for w in warnings if w in clang_output or w in gcc_output]
ws(clang_output, gcc_output) ==
    { w \in warnings : Contains(clang_output, w) \/ Contains(gcc_output, w) }

\* check_compiler_warnings once both compilers have answered: a and b are
\* the two runs, each with its outcome (the return code) and its output.
check_compiler_warnings(a, b) ==
    IF a.outcome # "ok" \/ b.outcome # "ok" THEN FALSE
    ELSE IF Cardinality(ws(a.out, b.out)) > 0 THEN FALSE
    ELSE TRUE

\* The stages of sanitize and the oracles of is_interesting, in the order
\* of their "and" chains.
StageOrder == <<"warnings", "ub", "ccomp">>
OracleOrder == <<"marker", "ccc", "static", "empty">>

\* Where each stage or oracle begins.
EntryPc(name) ==
    CASE name = "marker" -> "marker"
      [] name = "ccc" -> "ccc"
      [] name = "static" -> "static"
      [] name = "empty" -> "empty"
      [] name = "warnings" -> "cc_first"
      [] name = "ub" -> "ub_compile"
      [] name = "ccomp" -> "ccomp"

IndexIn(order, name) == CHOOSE i \in 1..Len(order) : order[i] = name

\* The operand that follows name in the chain, or "done" after the last.
NextIn(order, name) ==
    IF IndexIn(order, name) = Len(order) THEN "done"
    ELSE EntryPc(order[IndexIn(order, name) + 1])

\* A chain that evaluates every operand.
AfterStageEager(stage, v) == NextIn(StageOrder, stage)

\* sanitize: a and b and c. After a stage returned v, control goes to the
\* next stage only if v is true; otherwise sanitize returns.
AfterStage(stage, v) == IF v THEN NextIn(StageOrder, stage) ELSE "done"

\* A chain that evaluates every operand.
AfterOracleEager(oracle, v) == NextIn(OracleOrder, oracle)

\* is_interesting: a and b and c and d, likewise.
AfterOracle(oracle, v) == IF v THEN NextIn(OracleOrder, oracle) ELSE "done"

(***************************************************************************)
(* Inputs: candidate programs and the answers of the external tools.       *)
(***************************************************************************)

\* Source lines of candidate programs.
LineDecl == <<"v","o","i","d"," ","M","1","_","(","v","o","i","d",")",";">>
LineDeclThenText ==
    <<"v","o","i","d"," ","M","2","_","(","v","o","i","d",")",";"," ","x",";">>
LineIndentedDecl == <<" ","v","o","i","d"," ","M","1","_","(","v","o","i","d",")",";">>
LineDefinition == <<"v","o","i","d"," ","M","1","_","(","v","o","i","d",")","{","}">>
LineCall == <<"M","1","_","(",")",";">>
LineEmpty == <<>>

Lines == {LineDecl, LineDeclThenText, LineIndentedDecl, LineDefinition, LineCall, LineEmpty}

\* The programs of at most n lines.
Codes(n) == { JoinLines(ls) : ls \in UNION { [1..k -> Lines] : k \in 0..n } }

\* The program the whole checker is run on.
MainCode == JoinLines(<<LineDecl, LineCall>>)

\* Assembly texts Builder may produce.
AsmTexts == { <<"c","M","1","_">>, <<"c","M","2","_">>, <<"c","M","1","2","_">> }

\* Standard output of the call-graph tool on a successful run.
CccOutputs ==
    { CccPhrase \o M1 \o <<Newline>>,
      <<" ", VT>> \o CccPhrase \o M2 \o <<US, "U+00A0">>,
      CccPhrase \o M1 \o <<"x">>,
      CccPhrase \o <<"M", "1">>,
      <<>> }

\* Diagnostics of a compiler run.
CcOutputs ==
    { <<>>,
      <<"-","W","u","n","i","n","i","t","i","a","l","i","z","e","d">>,
      <<"u","n","u","s","e","d"," ","v","a","r","i","a","b","l","e">> }

\* How an external process ends: exit code 0, another exit code, or the
\* timeout of subprocess.run.
Outcomes == {"ok", "nonzero", "timeout"}

Proc(tool, outcome, out) == [tool |-> tool, outcome |-> outcome, out |-> out]

\* The scoped temporary .c file of an oracle, and the sanitizer executable.
TmpC == "tf.c"
Exe == "tf.exe"

(***************************************************************************)
(* Control flow shared by the actions.                                     *)
(***************************************************************************)

WithRet(r, names, v) ==
    [n \in DOMAIN r \cup names |-> IF n \in names THEN v ELSE r[n]]

\* Whether the oracle runs inside is_interesting (or was called directly).
InIsInteresting == calls # <<>> /\ Head(calls) = "is_interesting"

\* The functions that return together with the last operand of a chain.
Callers(oracle) == IF InIsInteresting THEN {oracle, "is_interesting"} ELSE {oracle}

\* An exception leaves the running function and every caller; the "with"
\* block of the oracle removes its temporary .c file on the way out.
Raise(exc, filesNow) ==
    /\ pc' = "raised"
    /\ raised' = exc
    /\ files' = filesNow \ {TmpC}
    /\ ret' = ret

\* An oracle of is_interesting returns v.
OracleReturns(oracle, v) ==
    LET nxt == IF InIsInteresting THEN AfterOracle(oracle, v) ELSE "done"
    IN  /\ pc' = nxt
        /\ ret' = IF nxt = "done" THEN WithRet(ret, Callers(oracle), v)
                  ELSE WithRet(ret, {oracle}, v)
        /\ raised' = raised

\* A stage of sanitize returns v; filesNow are the files the stage leaves.
\* When the chain ends, sanitize returns v to the Empty-Body oracle, which
\* returns it in turn and removes its temporary .c file.
StageReturns(stage, v, filesNow) ==
    LET nxt == AfterStage(stage, v)
    IN  IF nxt = "done"
        THEN /\ pc' = "done"
             /\ ret' = WithRet(ret, {stage, "sanitize"} \cup Callers("empty"), v)
             /\ files' = filesNow \ {TmpC}
             /\ raised' = raised
        ELSE /\ pc' = nxt
             /\ ret' = WithRet(ret, {stage}, v)
             /\ files' = filesNow
             /\ raised' = raised

(***************************************************************************)
(* Cases and settings as objects. Python passes references: a flag list, a *)
(* CompilerSetting, a list of settings and a ReduceCase are objects of the *)
(* heap, named by their index, and a field holds the index of its object.  *)
(***************************************************************************)

\* Largest number of override settings given on the command line.
MaxOverride == 2

\* No object exists yet.
EmptyHeap == [flags |-> <<>>, settings |-> <<>>, lists |-> <<>>, cases |-> <<>>]

\* The index the next object of a kind gets.
NewId(objs) == Len(objs) + 1

\* utils.CompilerSetting(name, additional_flags) with a flag list of its own.
NewSetting(h, name, fl) ==
    [h EXCEPT !.flags = Append(@, fl),
              !.settings = Append(@, [name |-> name, additional_flags |-> NewId(h.flags)])]

\* A Python list holding the settings just created for the given flag lists.
RECURSIVE NewSettings(_, _, _, _)
NewSettings(h, name, fls, ids) ==
    IF fls = <<>>
    THEN [h EXCEPT !.lists = Append(@, ids)]
    ELSE NewSettings(NewSetting(h, name, Head(fls)), name, Tail(fls),
                     Append(ids, NewId(h.settings)))

\* utils.ReduceCase.from_file: a case with settings, lists and flags of its
\* own: one bad setting and a list of good settings.
from_file(h, code, marker, badFlags, goodFlags) ==
    LET h1 == NewSetting(h, "bad", badFlags)
        h2 == NewSettings(h1, "good", goodFlags, <<>>)
    IN  [h2 EXCEPT !.cases = Append(@, [code |-> code, marker |-> marker,
                                        bad_setting |-> NewId(h.settings),
                                        good_settings |-> NewId(h1.lists)])]

\* copy_flag, its loop: cpy = dataclasses.replace(setting) is a new setting
\* object with the fields of setting; cpy.additional_flags = frm.additional_flags
\* makes its field refer to the flag list of frm.
RECURSIVE CopyFlagLoop(_, _, _, _)
CopyFlagLoop(h, frm, to, res) ==
    IF to = <<>> THEN [heap |-> h, res |-> res]
    ELSE LET cpy == [h.settings[Head(to)] EXCEPT
                        !.additional_flags = h.settings[frm].additional_flags]
         IN  CopyFlagLoop([h EXCEPT !.settings = Append(@, cpy)],
                          frm, Tail(to), Append(res, NewId(h.settings)))

\* copy_flag(frm, to): the heap afterwards and the new list res.
copy_flag(h, frm, to) ==
    LET r == CopyFlagLoop(h, frm, h.lists[to], <<>>)
    IN  [heap |-> [r.heap EXCEPT !.lists = Append(@, r.res)],
         res |-> NewId(r.heap.lists)]

\* override_bad, its loop: cpy = dataclasses.replace(case) is a new case
\* object with the fields of case; cpy.bad_setting = s.
RECURSIVE OverrideBadLoop(_, _, _, _)
OverrideBadLoop(h, c, bsettings, res) ==
    IF bsettings = <<>> THEN [heap |-> h, res |-> res]
    ELSE LET cpy == [h.cases[c] EXCEPT !.bad_setting = Head(bsettings)]
         IN  OverrideBadLoop([h EXCEPT !.cases = Append(@, cpy)],
                             c, Tail(bsettings), Append(res, NewId(h.cases)))

\* override_bad(case, override_settings): the heap afterwards and the cases.
override_bad(h, c, override_settings) ==
    LET b == copy_flag(h, h.cases[c].bad_setting, override_settings)
    IN  OverrideBadLoop(b.heap, c, b.heap.lists[b.res], <<>>)

\* override_good(case, override_settings): the heap afterwards and the case.
override_good(h, c, override_settings) ==
    LET frm == h.lists[h.cases[c].good_settings][1]
        g == copy_flag(h, frm, override_settings)
        cpy == [g.heap.cases[c] EXCEPT !.good_settings = g.res]
    IN  [heap |-> [g.heap EXCEPT !.cases = Append(@, cpy)],
         res |-> NewId(g.heap.cases)]

\* What is seen through a case: its fields, the fields of its settings and
\* the contents of their flag lists.
SettingValue(h, s) ==
    [name |-> h.settings[s].name, additional_flags |-> h.flags[h.settings[s].additional_flags]]

CaseValue(h, c) ==
    [code |-> h.cases[c].code,
     marker |-> h.cases[c].marker,
     bad_setting |-> SettingValue(h, h.cases[c].bad_setting),
     good_settings |-> [i \in 1..Len(h.lists[h.cases[c].good_settings]) |->
                          SettingValue(h, h.lists[h.cases[c].good_settings][i])]]

\* The case as the oracles read it: its settings named by their place.
CaseView(h, c) ==
    ReduceCase(h.cases[c].code, h.cases[c].marker, BadSetting,
               GoodSettings(Len(h.lists[h.cases[c].good_settings])))

(***************************************************************************)
(* Initial states.                                                         *)
(***************************************************************************)

NoAsm(c) == [s \in SettingsOf(c) |-> <<>>]

\* The process around the call is not modelled: one call of the Checker.
NoMain ==
    [mpc |-> "call", bad_given |-> FALSE, good_given |-> FALSE, marker |-> <<>>,
     bad_settings |-> 0, good_settings |-> 0, cases_to_test |-> <<>>,
     check_marker |-> FALSE, verdicts |-> <<>>, exit_code |-> <<>>, error |-> "none"]

\* Nobody has called override_bad or override_good.
NoClient ==
    [called |-> "none", base |-> 0, overrides |-> 0, derived |-> <<>>,
     base_before |-> <<>>, overrides_before |-> <<>>, after |-> <<>>, touched |-> <<>>]

\* The state of one is_interesting call before it begins.
InitCall ==
    /\ calls = <<>>
    /\ ret = <<>>
    /\ raised = "none"
    /\ procs = <<>>
    /\ files = {}
    /\ source = <<>>
    /\ asm = NoAsm(case)

InitCommon ==
    /\ main = NoMain
    /\ heap = EmptyHeap
    /\ client = NoClient
    /\ InitCall

\* A checker about to judge one case: any marker, one to MaxGood good
\* settings, and any alive-marker sets Builder may report for them.
Init ==
    /\ \E m \in Markers, n \in 1..MaxGood :
          case = ReduceCase(MainCode, m, BadSetting, GoodSettings(n))
    /\ alive \in [SettingsOf(case) -> SUBSET Markers]
    /\ pc = "start"
    /\ InitCommon

\* The Empty-Body oracle called on its own, on any program of at most
\* MaxLines lines.
InitEmptyBody ==
    /\ \E m \in Markers, code \in Codes(MaxLines) :
          case = ReduceCase(code, m, BadSetting, GoodSettings(1))
    /\ alive = [s \in SettingsOf(case) |-> {}]
    /\ pc = "empty"
    /\ InitCommon

(***************************************************************************)
(* Actions.                                                                *)
(***************************************************************************)

\* Checker.is_interesting is called on the case.
IsInteresting ==
    /\ pc = "start"
    /\ calls' = <<"is_interesting">>
    /\ pc' = EntryPc(OracleOrder[1])
    /\ UNCHANGED <<case, alive, asm, ret, raised, procs, files, source>>
    /\ UNCHANGED outer

\* Checker.is_interesting_wrt_marker
IsInterestingWrtMarker ==
    /\ pc = "marker"
    /\ calls' = Append(calls, "marker")
    /\ OracleReturns("marker", is_interesting_wrt_marker(case))
    /\ UNCHANGED <<case, alive, asm, procs, files, source>>
    /\ UNCHANGED outer

\* Checker.is_interesting_wrt_ccc: the code is written to a temporary file,
\* the call-graph tool runs on it with timeout 8, the file is removed.
IsInterestingWrtCcc ==
    /\ pc = "ccc"
    /\ calls' = Append(calls, "ccc")
    /\ source' = case.code
    /\ \E o \in Outcomes, out \in CccOutputs :
          /\ o # "ok" => out = <<>>
          /\ procs' = Append(procs, Proc("ccc", o, out))
          /\ IF o = "ok"
             THEN /\ OracleReturns("ccc", CccAnswerMatches(case.marker, run_cmd(out)))
                  /\ files' = files
             ELSE IF o \in CccCaught
             THEN /\ OracleReturns("ccc", FALSE)
                  /\ files' = files
             ELSE Raise(IF o = "timeout" THEN "TimeoutExpired" ELSE "CalledProcessError",
                        files \cup {TmpC})
    /\ UNCHANGED <<case, alive, asm>>
    /\ UNCHANGED outer

\* Checker.is_interesting_with_static_globals, up to the assembly: the code
\* is printed to a temporary file, the annotator rewrites it in place (no
\* timeout is given to it), and Builder compiles what it left.
StaticAnnotate ==
    /\ pc = "static"
    /\ calls' = Append(calls, "static")
    /\ source' = case.code \o <<Newline>>
    /\ \E o \in Outcomes \ {"timeout"} :
          /\ procs' = Append(procs, Proc("annotator", o, <<>>))
          /\ IF o = "ok"
             THEN /\ asm' \in [SettingsOf(case) -> AsmTexts]
                  /\ pc' = "static_asm"
                  /\ files' = files \cup {TmpC}
                  /\ UNCHANGED <<ret, raised>>
             ELSE /\ Raise(AnnotatorFailure, files \cup {TmpC})
                  /\ asm' = asm
    /\ UNCHANGED <<case, alive>>
    /\ UNCHANGED outer

\* Checker.is_interesting_with_static_globals, from the assembly on.
StaticCompare ==
    /\ pc = "static_asm"
    /\ OracleReturns("static", StaticVerdict(case))
    /\ files' = files \ {TmpC}
    /\ UNCHANGED <<case, alive, asm, calls, procs, source>>
    /\ UNCHANGED outer

\* Checker.is_interesting_with_empty_marker_bodies, up to the call of
\* sanitize: the rewritten program is written to a temporary file.
EmptyMarkerBodies ==
    /\ pc = "empty"
    /\ calls' = calls \o <<"empty", "sanitize">>
    /\ source' = EmptyBodyCode(case.code, case.marker)
    /\ files' = files \cup {TmpC}
    /\ pc' = EntryPc(StageOrder[1])
    /\ UNCHANGED <<case, alive, asm, ret, raised, procs>>
    /\ UNCHANGED outer

\* check_compiler_warnings, first get_cc_output: sanitize passes gcc in the
\* place of the parameter named clang, so gcc runs first. A timeout raises
\* TimeoutExpired, which nothing in sanitize catches.
GetCcOutputFirst ==
    /\ pc = "cc_first"
    /\ calls' = Append(calls, "warnings")
    /\ \E o \in Outcomes, out \in CcOutputs :
          /\ o = "timeout" => out = <<>>
          /\ procs' = Append(procs, Proc("gcc", o, out))
          /\ IF o = "timeout"
             THEN Raise("TimeoutExpired", files)
             ELSE /\ pc' = "cc_second"
                  /\ UNCHANGED <<ret, raised, files>>
    /\ UNCHANGED <<case, alive, asm, source>>
    /\ UNCHANGED outer

\* check_compiler_warnings, second get_cc_output and the verdict.
GetCcOutputSecond ==
    /\ pc = "cc_second"
    /\ \E o \in Outcomes, out \in CcOutputs :
          /\ o = "timeout" => out = <<>>
          /\ procs' = Append(procs, Proc("clang", o, out))
          /\ IF o = "timeout"
             THEN Raise("TimeoutExpired", files)
             ELSE StageReturns("warnings",
                               check_compiler_warnings(procs[Len(procs)], Proc("clang", o, out)),
                               files)
    /\ UNCHANGED <<case, alive, asm, calls, source>>
    /\ UNCHANGED outer

\* use_ub_sanitizers, the instrumented compile: the executable file is
\* created (delete=False), then the compiler runs. On a non-zero exit the
\* file is removed if it is still there; a timeout raises TimeoutExpired.
UbCompile ==
    /\ pc = "ub_compile"
    /\ calls' = Append(calls, "ub")
    /\ \E o \in Outcomes :
          /\ procs' = Append(procs, Proc("clang-sanitize", o, <<>>))
          /\ CASE o = "ok" ->
                    /\ pc' = "ub_run"
                    /\ files' = files \cup {Exe}
                    /\ UNCHANGED <<ret, raised>>
               [] o = "nonzero" ->
                    StageReturns("ub", FALSE, (files \cup {Exe}) \ {Exe})
               [] o = "timeout" ->
                    Raise("TimeoutExpired", files \cup {Exe})
    /\ UNCHANGED <<case, alive, asm, source>>
    /\ UNCHANGED outer

\* use_ub_sanitizers, the run of the executable: os.remove follows the run,
\* so a timeout leaves before it.
UbRun ==
    /\ pc = "ub_run"
    /\ \E o \in Outcomes :
          /\ procs' = Append(procs, Proc("exe", o, <<>>))
          /\ IF o = "timeout"
             THEN Raise("TimeoutExpired", files)
             ELSE StageReturns("ub", o = "ok", files \ {Exe})
    /\ UNCHANGED <<case, alive, asm, calls, source>>
    /\ UNCHANGED outer

\* verify_with_ccomp: run_cmd inside ccomp_env; CalledProcessError and
\* TimeoutExpired are both caught and give False.
VerifyWithCcomp ==
    /\ pc = "ccomp"
    /\ calls' = Append(calls, "ccomp")
    /\ \E o \in Outcomes :
          /\ procs' = Append(procs, Proc("ccomp", o, <<>>))
          /\ StageReturns("ccomp", o = "ok", files)
    /\ UNCHANGED <<case, alive, asm, source>>
    /\ UNCHANGED outer

Next ==
    \/ IsInteresting
    \/ IsInterestingWrtMarker
    \/ IsInterestingWrtCcc
    \/ StaticAnnotate
    \/ StaticCompare
    \/ EmptyMarkerBodies
    \/ GetCcOutputFirst
    \/ GetCcOutputSecond
    \/ UbCompile
    \/ UbRun
    \/ VerifyWithCcomp

NextEmptyBody ==
    \/ EmptyMarkerBodies
    \/ GetCcOutputFirst
    \/ GetCcOutputSecond
    \/ UbCompile
    \/ UbRun
    \/ VerifyWithCcomp

Spec == Init /\ [][Next]_vars

SpecEmptyBody == InitEmptyBody /\ [][NextEmptyBody]_vars

(***************************************************************************)
(* The checker process (__main__).                                         *)
(***************************************************************************)

\* The marker stored with the case file, and the one given as --marker.
FileMarker == M1
ArgMarker == M2

\* Flags stored with the case file.
FileFlags == <<"-I">>

\* No case is under judgment.
NoCase == ReduceCase(<<>>, <<>>, BadSetting, GoodSettings(1))

\* sys.exit(0) if all(...) else sys.exit(1), whatever the cases say: exit 0.
ExitCodeAlwaysZero(all_interesting) == IF all_interesting THEN 0 ELSE 0

\* if all(chkr.is_interesting(c) for c in cases_to_test): sys.exit(0)
\* else: sys.exit(1)
ExitCode(all_interesting) == IF all_interesting THEN 0 ELSE 1

\* [utils.ReduceCase(code, "", bs, good_settings) for bs in bad_settings]
RECURSIVE NewCases(_, _, _, _, _)
NewCases(h, code, bss, goods, res) ==
    IF bss = <<>> THEN [heap |-> h, res |-> res]
    ELSE NewCases([h EXCEPT !.cases = Append(@, [code |-> code, marker |-> <<>>,
                                                 bad_setting |-> Head(bss),
                                                 good_settings |-> goods])],
                  code, Tail(bss), goods, Append(res, NewId(h.cases)))

\* for c in cases_to_test: c.marker = args.marker
SetMarkers(h, cs, marker) ==
    [h EXCEPT !.cases = [c \in 1..Len(h.cases) |->
        IF \E i \in 1..Len(cs) : cs[i] = c
        THEN [h.cases[c] EXCEPT !.marker = marker]
        ELSE h.cases[c]]]

\* The process after its arguments were parsed and the override settings
\* built: bad and good overrides given or not (each a list of its own,
\* empty when not given), --marker given or not.
InitMain ==
    /\ \E bg \in BOOLEAN, gg \in BOOLEAN, mk \in {<<>>, <<ArgMarker>>},
          kb \in 0..MaxOverride, kg \in 0..MaxOverride :
          /\ bg <=> kb > 0
          /\ gg <=> kg > 0
          /\ LET h1 == NewSettings(EmptyHeap, "bad-override", [i \in 1..kb |-> <<>>], <<>>)
                 h2 == NewSettings(h1, "good-override", [i \in 1..kg |-> <<>>], <<>>)
             IN  /\ heap = h2
                 /\ main = [NoMain EXCEPT !.mpc = "build",
                                          !.bad_given = bg,
                                          !.good_given = gg,
                                          !.marker = mk,
                                          !.bad_settings = NewId(EmptyHeap.lists),
                                          !.good_settings = NewId(h1.lists)]
    /\ client = NoClient
    /\ case = NoCase
    /\ alive = [s \in SettingsOf(case) |-> {}]
    /\ pc = "idle"
    /\ InitCall

\* cases_to_test, by the overrides given (the four branches).
MainBuildCases ==
    /\ main.mpc = "build"
    /\ LET loaded == from_file(heap, MainCode, FileMarker, FileFlags, <<FileFlags>>)
           base == NewId(heap.cases)
           r == CASE main.bad_given /\ main.good_given ->
                       NewCases(heap, MainCode, heap.lists[main.bad_settings],
                                main.good_settings, <<>>)
                  [] main.bad_given /\ ~ main.good_given ->
                       override_bad(loaded, base, main.bad_settings)
                  [] ~ main.bad_given /\ main.good_given ->
                       LET g == override_good(loaded, base, main.good_settings)
                       IN  [heap |-> g.heap, res |-> <<g.res>>]
                  [] OTHER -> [heap |-> loaded, res |-> <<base>>]
       IN  /\ heap' = r.heap
           /\ main' = [main EXCEPT !.mpc = "marker",
                                   !.cases_to_test = r.res,
                                   !.check_marker = main.bad_given /\ main.good_given]
    /\ UNCHANGED <<case, alive, asm, pc, calls, ret, raised, procs, files, source, client>>

\* if args.marker is not None: ... elif check_marker: raise Exception(...).
\* The uncaught exception ends the process with exit code 1.
MainSetMarker ==
    /\ main.mpc = "marker"
    /\ IF main.marker # <<>>
       THEN /\ heap' = SetMarkers(heap, main.cases_to_test, main.marker[1])
            /\ main' = [main EXCEPT !.mpc = "judge"]
       ELSE IF main.check_marker
       THEN /\ heap' = heap
            /\ main' = [main EXCEPT !.mpc = "exited", !.exit_code = <<1>>,
                                    !.error = "Exception"]
       ELSE /\ heap' = heap
            /\ main' = [main EXCEPT !.mpc = "judge"]
    /\ UNCHANGED <<case, alive, asm, pc, calls, ret, raised, procs, files, source, client>>

\* all(chkr.is_interesting(c) for c in cases_to_test), one turn: with no
\* case left all(...) is true and the process exits; otherwise
\* is_interesting is called on the next case, for which Builder may report
\* any alive-marker sets.
MainJudge ==
    /\ main.mpc = "judge"
    /\ IF Len(main.verdicts) = Len(main.cases_to_test)
       THEN /\ main' = [main EXCEPT !.mpc = "exited", !.exit_code = <<ExitCode(TRUE)>>]
            /\ UNCHANGED <<case, alive, asm, pc, calls, ret, raised, procs, source>>
       ELSE /\ main' = [main EXCEPT !.mpc = "judging"]
            /\ case' = CaseView(heap, main.cases_to_test[Len(main.verdicts) + 1])
            /\ alive' \in [SettingsOf(case') -> SUBSET Markers]
            /\ asm' = NoAsm(case')
            /\ pc' = "start"
            /\ calls' = <<>>
            /\ ret' = <<>>
            /\ raised' = "none"
            /\ procs' = <<>>
            /\ source' = <<>>
    /\ UNCHANGED <<files, heap, client>>

\* is_interesting has ended: a false verdict makes all(...) false and the
\* process exits; an exception ends the process with exit code 1; after a
\* true verdict the next case is looked at.
MainCaseEnds ==
    /\ main.mpc = "judging"
    /\ pc \in {"done", "raised"}
    /\ pc' = "idle"
    /\ IF pc = "raised"
       THEN main' = [main EXCEPT !.mpc = "exited", !.exit_code = <<1>>, !.error = raised]
       ELSE IF ret["is_interesting"]
       THEN main' = [main EXCEPT !.mpc = "judge", !.verdicts = Append(@, TRUE)]
       ELSE main' = [main EXCEPT !.mpc = "exited", !.verdicts = Append(@, FALSE),
                                 !.exit_code = <<ExitCode(FALSE)>>]
    /\ UNCHANGED <<case, alive, asm, calls, ret, raised, procs, files, source, heap, client>>

NextMain ==
    \/ MainBuildCases
    \/ MainSetMarker
    \/ MainJudge
    \/ MainCaseEnds
    \/ IsInteresting
    \/ IsInterestingWrtMarker
    \/ IsInterestingWrtCcc
    \/ StaticAnnotate
    \/ StaticCompare
    \/ EmptyMarkerBodies
    \/ GetCcOutputFirst
    \/ GetCcOutputSecond
    \/ UbCompile
    \/ UbRun
    \/ VerifyWithCcomp

SpecMain == InitMain /\ [][NextMain]_vars

(***************************************************************************)
(* A caller of override_bad / override_good that later changes one case.   *)
(***************************************************************************)

\* Flag lists a stored or override setting may carry, and a flag added later.
FlagLists == {<<>>, <<"-I">>}
LaterFlag == "-O2"

\* Sequences over S of length lo..hi.
SeqsOf(S, lo, hi) == UNION {[1..n -> S] : n \in lo..hi}

\* The cases the caller holds after the call: the base case and the derived.
ClientCases == {client.base} \cup {client.derived[i] : i \in 1..Len(client.derived)}

\* The settings reached through a case, and the flag lists reached through it.
SettingsThrough(h, c) ==
    {h.cases[c].bad_setting}
        \cup {h.lists[h.cases[c].good_settings][i] :
                 i \in 1..Len(h.lists[h.cases[c].good_settings])}
FlagsThrough(h, c) == {h.settings[s].additional_flags : s \in SettingsThrough(h, c)}

\* The values seen through every case and every override setting.
Snapshot(h) ==
    [cases |-> [c \in 1..Len(h.cases) |-> CaseValue(h, c)],
     settings |-> [s \in 1..Len(h.settings) |-> SettingValue(h, s)]]

\* A base case loaded from its file and a list of override settings.
InitOverride ==
    /\ \E bf \in FlagLists, gfs \in SeqsOf(FlagLists, 1, MaxGood),
          ofs \in SeqsOf(FlagLists, 1, MaxOverride) :
          LET h1 == from_file(EmptyHeap, MainCode, FileMarker, bf, gfs)
              h2 == NewSettings(h1, "override", ofs, <<>>)
          IN  /\ heap = h2
              /\ client = [NoClient EXCEPT !.base = NewId(EmptyHeap.cases),
                                           !.overrides = NewId(h1.lists)]
    /\ main = NoMain
    /\ case = NoCase
    /\ alive = [s \in SettingsOf(case) |-> {}]
    /\ pc = "idle"
    /\ InitCall

\* What the caller records around a call that left the heap h and the
\* derived cases res.
AfterCall(name, h, res) ==
    [client EXCEPT !.called = name,
                   !.derived = res,
                   !.base_before = CaseValue(heap, client.base),
                   !.overrides_before =
                       [i \in 1..Len(heap.lists[client.overrides]) |->
                           SettingValue(heap, heap.lists[client.overrides][i])],
                   !.after = Snapshot(h)]

\* cases = override_bad(base, overrides)
ClientOverrideBad ==
    /\ client.called = "none"
    /\ client.base > 0
    /\ LET r == override_bad(heap, client.base, client.overrides)
       IN  /\ heap' = r.heap
           /\ client' = AfterCall("override_bad", r.heap, r.res)
    /\ UNCHANGED <<case, alive, asm, pc, calls, ret, raised, procs, files, source, main>>

\* case = override_good(base, overrides)
ClientOverrideGood ==
    /\ client.called = "none"
    /\ client.base > 0
    /\ LET r == override_good(heap, client.base, client.overrides)
       IN  /\ heap' = r.heap
           /\ client' = AfterCall("override_good", r.heap, <<r.res>>)
    /\ UNCHANGED <<case, alive, asm, pc, calls, ret, raised, procs, files, source, main>>

\* A later change to one case's flags: a flag is added to the flag list of a
\* setting reached through the case (setting.additional_flags.append(flag)).
ClientAppendFlag ==
    /\ client.called # "none"
    /\ client.touched = <<>>
    /\ \E c \in ClientCases : \E s \in SettingsThrough(heap, c) :
          /\ heap' = [heap EXCEPT !.flags[heap.settings[s].additional_flags] =
                                      Append(@, LaterFlag)]
          /\ client' = [client EXCEPT !.touched = <<c>>]
    /\ UNCHANGED <<case, alive, asm, pc, calls, ret, raised, procs, files, source, main>>

\* A later change to one case's settings: a setting reached through the case
\* is given a flag list of its own (setting.additional_flags = [flag]).
ClientSetFlags ==
    /\ client.called # "none"
    /\ client.touched = <<>>
    /\ \E c \in ClientCases : \E s \in SettingsThrough(heap, c) :
          /\ heap' = [heap EXCEPT !.flags = Append(@, <<LaterFlag>>),
                                  !.settings[s].additional_flags = NewId(heap.flags)]
          /\ client' = [client EXCEPT !.touched = <<c>>]
    /\ UNCHANGED <<case, alive, asm, pc, calls, ret, raised, procs, files, source, main>>

NextOverride ==
    \/ ClientOverrideBad
    \/ ClientOverrideGood
    \/ ClientAppendFlag
    \/ ClientSetFlags

SpecOverride == InitOverride /\ [][NextOverride]_vars

(***************************************************************************)
(* Properties.                                                             *)
(***************************************************************************)

Returned(f) == f \in DOMAIN ret
Called(f) == \E i \in 1..Len(calls) : calls[i] = f
IsPrefixOf(s, t) == Len(s) <= Len(t) /\ SubSeq(t, 1, Len(s)) = s
Finished == pc \in {"done", "raised"}

Oracles == {"marker", "ccc", "static", "empty"}
Stages == {"warnings", "ub", "ccomp"}
IsOracle(f) == f \in Oracles
IsStage(f) == f \in Stages
OracleCalls == SelectSeq(calls, IsOracle)
StageCalls == SelectSeq(calls, IsStage)

ProcsOf(tools) == { procs[i] : i \in { j \in 1..Len(procs) : procs[j].tool \in tools } }
SanitizeTools == {"gcc", "clang", "clang-sanitize", "exe", "ccomp"}

\* C1: is_interesting invokes the oracles in the order Marker, Call-Chain,
\* Static-Global, Empty-Body; an oracle is invoked only after every earlier
\* one returned true; when is_interesting returns, it returns true iff all
\* four returned true, and a false answer comes from the last oracle
\* invoked, none after it having been invoked.
C1_OrderedShortCircuit ==
    /\ IsPrefixOf(OracleCalls, <<"marker", "ccc", "static", "empty">>)
    /\ \A i \in 2..Len(OracleCalls) :
          Returned(OracleCalls[i - 1]) /\ ret[OracleCalls[i - 1]] = TRUE
    /\ Returned("is_interesting") =>
          /\ ret["is_interesting"] = (\A o \in Oracles : Returned(o) /\ ret[o] = TRUE)
          /\ ret["is_interesting"] = FALSE =>
                LET last == OracleCalls[Len(OracleCalls)]
                IN  Returned(last) /\ ret[last] = FALSE

\* The Call-Chain oracle said no: is_interesting returned false and the two
\* oracles after it were never invoked.
C1_Witness ==
    /\ Returned("is_interesting")
    /\ ret["is_interesting"] = FALSE
    /\ OracleCalls = <<"marker", "ccc">>
    /\ ret["marker"] = TRUE
    /\ ret["ccc"] = FALSE

\* C2: is_interesting_wrt_marker returns true iff the marker is in the
\* alive set under the bad setting and in the alive set of no good setting.
C2_MarkerRule ==
    Returned("marker") =>
        ret["marker"] =
            (/\ case.marker \in alive[case.bad_setting]
             /\ \A i \in 1..Len(case.good_settings) :
                   case.marker \notin alive[case.good_settings[i]])

\* The marker is alive under the bad setting and dead under the first good
\* setting, but alive under a later one: the verdict is false.
C2_Witness ==
    /\ Returned("marker")
    /\ ret["marker"] = FALSE
    /\ case.marker \in alive[case.bad_setting]
    /\ Len(case.good_settings) >= 2
    /\ case.marker \notin alive[case.good_settings[1]]
    /\ case.marker \in alive[case.good_settings[2]]

\* What makes check_compiler_warnings reject: a compiler exited non-zero, or
\* a catalogue signature occurs in the output of either compiler.
WarningsReject ==
    \E p \in ProcsOf({"gcc", "clang"}) :
        \/ p.outcome = "nonzero"
        \/ \E w \in warnings : Contains(p.out, w)

\* C3: the stages of sanitize run in the order warnings, sanitizer,
\* interpreter, each only after every earlier one accepted; when
\* check_compiler_warnings rejects (non-zero exit or a catalogue signature),
\* sanitize returns false and neither later stage is invoked; when
\* use_ub_sanitizers rejects, verify_with_ccomp is not invoked.
C3_StagesGated ==
    /\ IsPrefixOf(StageCalls, <<"warnings", "ub", "ccomp">>)
    /\ Called("ub") => Returned("warnings") /\ ret["warnings"] = TRUE
    /\ Called("ccomp") => Returned("ub") /\ ret["ub"] = TRUE
    /\ Returned("warnings") => (ret["warnings"] = ~ WarningsReject)
    /\ \A s \in {"warnings", "ub"} :
          (Returned(s) /\ ret[s] = FALSE) =>
              /\ Returned("sanitize") /\ ret["sanitize"] = FALSE
              /\ StageCalls[Len(StageCalls)] = s

\* Both compilers exit with 0 and one prints a catalogue signature:
\* sanitize returned false with only the first stage invoked.
C3_Witness ==
    /\ Returned("sanitize")
    /\ ret["sanitize"] = FALSE
    /\ StageCalls = <<"warnings">>
    /\ \A p \in ProcsOf({"gcc", "clang"}) : p.outcome = "ok"
    /\ Cardinality(ProcsOf({"gcc", "clang"})) = 2

\* C4: whenever an external process of sanitize timed out or exited
\* non-zero, sanitize returns false and no exception leaves it.
C4_FailureGivesFalse ==
    (/\ Finished
     /\ \E p \in ProcsOf(SanitizeTools) : p.outcome \in {"nonzero", "timeout"})
    => (raised = "none" /\ Returned("sanitize") /\ ret["sanitize"] = FALSE)

\* C5: is_interesting_with_static_globals returns true iff the marker
\* occurs in the assembly of the annotated source under the bad setting and
\* in the assembly under no good setting.
C5_StaticRule ==
    Returned("static") =>
        ret["static"] =
            (/\ Contains(asm[case.bad_setting], case.marker)
             /\ \A i \in 1..Len(case.good_settings) :
                   ~ Contains(asm[case.good_settings[i]], case.marker))

\* The marker occurs inside a longer assembly text under the bad setting
\* and under neither of two good settings: the verdict is true.
C5_Witness ==
    /\ Returned("static")
    /\ ret["static"] = TRUE
    /\ Len(case.good_settings) >= 2
    /\ asm[case.bad_setting] # case.marker

\* C6: when the call-graph tool exits non-zero or exceeds its timeout,
\* is_interesting_wrt_ccc returns false and raises nothing.
C6_CccFailureGivesFalse ==
    (\E p \in ProcsOf({"ccc"}) : p.outcome \in {"nonzero", "timeout"})
    => (raised = "none" /\ Returned("ccc") /\ ret["ccc"] = FALSE)

\* The call-graph tool timed out and the oracle returned false.
C6_Witness ==
    /\ \E p \in ProcsOf({"ccc"}) : p.outcome = "timeout"
    /\ Returned("ccc")
    /\ ret["ccc"] = FALSE
    /\ raised = "none"

\* C7: when the call-graph tool succeeds, is_interesting_wrt_ccc returns
\* true iff the tool's output, trimmed of whitespace, is exactly
\* "call chain exists between main -> <marker>".
C7_ExactPhrase ==
    \A p \in ProcsOf({"ccc"}) :
        p.outcome = "ok" =>
            /\ Returned("ccc")
            /\ ret["ccc"] = (Strip(p.out) = CccPhrase \o case.marker)

\* The tool printed the phrase followed by one more character: false.
C7_Witness ==
    /\ Returned("ccc")
    /\ ret["ccc"] = FALSE
    /\ \E p \in ProcsOf({"ccc"}) :
          /\ p.outcome = "ok"
          /\ p.out = CccPhrase \o case.marker \o <<"x">>

\* C8: no failure of an external tool leaves is_interesting as an
\* exception; when the static annotator exits non-zero, the Static-Global
\* oracle returns false.
C8_ToolFailureIsCaught ==
    /\ raised = "none"
    /\ (\E p \in ProcsOf({"annotator"}) : p.outcome = "nonzero")
          => (Returned("static") /\ ret["static"] = FALSE)

\* C9: once use_ub_sanitizers has finished, by return or by exception, the
\* executable file it created no longer exists.
C9_ExecutableRemoved ==
    (Called("ub") /\ (Returned("ub") \/ Finished)) => Exe \notin files

\* A numeric id: digits and underscores.
IsId(s) == s # <<>> /\ \A i \in 1..Len(s) : s[i] \in Digits \cup {"_"}

\* The lengths k such that the line begins with "void <prefix><id>(void);"
\* for an id of k characters (at most one k).
DeclIdLens(line, prefix) ==
    LET h == Len(VoidSp \o prefix)
    IN  { k \in 1..Len(line) :
            /\ StartsWith(line, VoidSp \o prefix)
            /\ IsId(SubSeq(line, h + 1, h + k))
            /\ OccursAt(line, DeclTail, h + k + 1) }

\* The line the specification asks for: the forward declaration turned into
\* an empty-bodied definition, whatever follows it kept; any other line as is.
ExpectedLine(line, prefix) ==
    IF DeclIdLens(line, prefix) = {} THEN line
    ELSE LET h == Len(VoidSp \o prefix)
             k == CHOOSE x \in DeclIdLens(line, prefix) : TRUE
         IN  SubSeq(line, 1, h + k) \o DefTail
                 \o SubSeq(line, h + k + Len(DeclTail) + 1, Len(line))

\* C10: the rewritten program has the lines of the input, in order, each
\* forward declaration turned into a definition and every other line, and
\* any text after a declaration, unchanged; no line is added or dropped.
C10_RewriteKeepsLines ==
    Called("empty") =>
        LET lines == SplitLines(case.code)
            prefix == get_marker_prefix(case.marker)
        IN  SplitLines(source) = [i \in 1..Len(lines) |-> ExpectedLine(lines[i], prefix)]

\* C11: rewriting a program that is already the output of the rewriting gives
\* the same text: rewrite(rewrite(code)) = rewrite(code).
C11_RewriteIdempotent ==
    Called("empty") => EmptyBodyCode(source, case.marker) = source

\* The process has ended with this exit code.
ExitedWith(code) == main.mpc = "exited" /\ main.exit_code = <<code>>

\* Every constructed case was judged, and judged interesting.
AllJudgedInteresting ==
    /\ Len(main.verdicts) = Len(main.cases_to_test)
    /\ \A i \in 1..Len(main.verdicts) : main.verdicts[i]
    /\ main.error = "none"

\* Both overrides were given and no marker.
MarkerMissing == main.bad_given /\ main.good_given /\ main.marker = <<>>

\* C12: the process exits with code 0 iff every constructed case was judged
\* interesting by is_interesting, and with code 1 otherwise (a case judged not
\* interesting, or an exception); a recorded verdict is the value
\* is_interesting returned; with both overrides given and no
\* marker an exception is raised before any oracle or tool is called on any
\* case, and the process ends with exit code 1.
C12_ExitCode ==
    /\ main.mpc = "exited" =>
          /\ ExitedWith(0) \/ ExitedWith(1)
          /\ ExitedWith(0) <=> AllJudgedInteresting
    /\ (main.mpc \in {"judge", "exited"} /\ main.verdicts # <<>> /\ main.error = "none") =>
          /\ Returned("is_interesting")
          /\ main.verdicts[Len(main.verdicts)] = ret["is_interesting"]
    /\ MarkerMissing =>
          /\ calls = <<>>
          /\ procs = <<>>
          /\ main.verdicts = <<>>
          /\ main.mpc \in {"build", "marker", "exited"}
          /\ main.mpc = "exited" => ExitedWith(1) /\ main.error = "Exception"

\* Two derived cases were both judged interesting and the process exited 0.
C12_Witness ==
    /\ ExitedWith(0)
    /\ Len(main.cases_to_test) >= 2
    /\ AllJudgedInteresting

\* The process ended on the missing marker.
C12_MarkerMissingExit == MarkerMissing /\ ExitedWith(1)

\* One case was judged not interesting after another was judged interesting.
C12_RejectedExit ==
    /\ ExitedWith(1)
    /\ Len(main.verdicts) >= 2
    /\ ~ main.verdicts[Len(main.verdicts)]

\* The call left the base case and the override settings as they were.
BaseAndOverridesKept ==
    /\ client.after.cases[client.base] = client.base_before
    /\ \A i \in 1..Len(heap.lists[client.overrides]) :
          client.after.settings[heap.lists[client.overrides][i]]
              = client.overrides_before[i]

\* Every derived case has the code and the marker of the base case.
DerivedShareCodeAndMarker ==
    \A i \in 1..Len(client.derived) :
        /\ heap.cases[client.derived[i]].code = heap.cases[client.base].code
        /\ heap.cases[client.derived[i]].marker = heap.cases[client.base].marker

\* No flag list is reached through a derived case and through another case.
FlagsNotShared ==
    \A i \in 1..Len(client.derived) : \A c \in ClientCases \ {client.derived[i]} :
        FlagsThrough(heap, client.derived[i]) \cap FlagsThrough(heap, c) = {}

\* The later change to one case is not seen through any other case.
ChangeNotVisibleElsewhere ==
    \A t \in {client.touched[i] : i \in 1..Len(client.touched)} :
        \A c \in ClientCases \ {t} : CaseValue(heap, c) = client.after.cases[c]

\* C13: override_bad and override_good leave the base case and the override
\* settings unchanged, and every derived case is an independent copy: it has
\* the code and marker of the base case, shares no flag list with the base
\* case or another derived case, and a later change to one case's settings or
\* flags is not visible through any other case.
C13_IndependentCopies ==
    client.called # "none" =>
        /\ BaseAndOverridesKept
        /\ DerivedShareCodeAndMarker
        /\ FlagsNotShared
        /\ ChangeNotVisibleElsewhere

\* The part of C13 that holds: neither function mutates what it is given, and
\* the derived cases carry the code and marker of the base case.
C13_ArgumentsKept ==
    client.called # "none" => BaseAndOverridesKept /\ DerivedShareCodeAndMarker

\* A change made through one derived case is seen through the base case.
C13_ChangeSeenThroughBase ==
    /\ client.touched # <<>>
    /\ client.touched[1] # client.base
    /\ CaseValue(heap, client.base) # client.after.cases[client.base]

====
